---- MODULE Spec2Model ----
(***************************************************************************)
(* A model of declaration_site: the format-polymorphic facade over object  *)
(* files (symbolic_object/mod.rs, mono_archive.rs) and the scan that        *)
(* resolves a function name to its declaration site (lib.rs).               *)
(*                                                                          *)
(* Three specifications share the variables:                                *)
(*   Spec        - one call of declaration_by_name or of the generalized    *)
(*                 scan for_some_currently_loaded_rust_functions;           *)
(*   SpecArchive - Archive::parse, Archive::objects and pulls of the        *)
(*                 returned iterator, on one buffer;                        *)
(*   SpecSite    - DeclarationSite::try_from on one Function.               *)
(***************************************************************************)
EXTENDS Integers, Sequences, FiniteSets, TLC

VARIABLES
    osLibs,      \* the shared libraries findshlibs enumerates: <<name, debug_name>>
    exe,         \* what current_exe() returns in this process
    mode,        \* "by_name" | "generic" (scan) | "archive" | "site"
    target,      \* declaration_by_name's `name`
    pc,          \* position of the running operation
    libraries,   \* lib.rs:86   the owned snapshot
    eachIdx,     \* position of TargetSharedLibrary::each in osLibs
    li,          \* lib.rs:99   index of the module being processed
    file_data,   \* lib.rs:110  the bytes read (a buffer)
    archive,     \* lib.rs:114  Result<Archive, ObjectError>
    objects,     \* lib.rs:118  the ObjectIterator
    oi,          \* number of items pulled from `objects` for this module
    functions,   \* lib.rs:127  the ObjectFunctionIterator (records left)
    fi,          \* number of items pulled from `functions` for this object
    function,    \* the Function last handed to the callback / to try_from
    result,      \* lib.rs:52   declaration_by_name's `result`
    site,        \* Result<DeclarationSite, DeclarationSiteError> of try_from
    ret,         \* what the finished operation returned to its caller
    rets,        \* <<first, last>> value the callback returned, <<>> before
    log,         \* history: what the operation did, in order
    pulls        \* history: <<item, size_hint after>> of each pull (SpecArchive)

vars == <<osLibs, exe, mode, target, pc, libraries, eachIdx, li, file_data,
          archive, objects, oi, functions, fi, function, result, site, ret,
          rets, log, pulls>>

(***************************************************************************)
(* Bounds of the model.                                                     *)
(***************************************************************************)
MaxLibs == 2      \* loaded modules in one process
MaxLines == 2     \* line records of one Function (SpecSite)
MaxPulls == 3     \* pulls of one objects() iterator (SpecArchive)
MaxPeeks == 2     \* calls of peek on one buffer (SpecPeek)

(***************************************************************************)
(* Values.                                                                  *)
(***************************************************************************)
None == <<>>
Some(x) == <<x>>
IsSome(o) == o # <<>>
Unwrap(o) == o[1]

Ok(v) == [ok |-> TRUE, val |-> v]
Err(e) == [ok |-> FALSE, err |-> e]

\* u64 and u32 as little-endian sequences of 16-bit limbs (4 and 2 limbs).
Limbs == {0, 42, 65535}
U64s == {<<a, b, c, 0>> : a \in Limbs, b \in {0, 65535}, c \in {0, 1}}
           \cup {<<7, 0, 0, 32768>>}

\* `x as u32` for x: u64 keeps the low 32 bits.
AsU32(v) == <<v[1], v[2]>>

\* The u64 with the same numeric value as a u32.
U32ToU64(w) == <<w[1], w[2], 0, 0>>


(***************************************************************************)
(* Functions, line records and DeclarationSite (lib.rs:145-202).            *)
(***************************************************************************)
\* FileInfo: directory and name components of a source file reference.
FileInfos == { [dir |-> "", name |-> "a.rs"],
               [dir |-> "/src", name |-> "b.rs"],
               [dir |-> "/src", name |-> "/abs/c.rs"] }

LineInfos == [file : FileInfos, line : U64s]

IsAbsolute(name) == name \in {"/abs/c.rs"}

\* FileInfo::path_str: the directory joined with the name.
PathStr(file) ==
    IF file.dir = "" \/ IsAbsolute(file.name)
    THEN file.name
    ELSE file.dir \o "/" \o file.name

\* A Function record as the scan uses it: its raw name and its lines.
Function(name, lines) == [name |-> name, lines |-> lines]

\* Mutants of TryFrom: the last line record instead of the first; a missing
\* first line reported as a site.
TryFromLastLine(value) ==
    IF Len(value.lines) = 0
    THEN Err("MissingLines")
    ELSE LET line == value.lines[Len(value.lines)]
         IN  Ok([file |-> PathStr(line.file), line |-> AsU32(line.line)])

\* lib.rs:190-201  impl TryFrom<&Function> for DeclarationSite
TryFrom(value) ==
    IF Len(value.lines) = 0
    THEN Err("MissingLines")
    ELSE LET line == value.lines[1]
         IN  Ok([file |-> PathStr(line.file), line |-> AsU32(line.line)])

\* Result::ok (lib.rs:55)
ResultOk(r) == IF r.ok THEN Some(r.val) ELSE None

(***************************************************************************)
(* Buffers.  A buffer abstracts the bytes of a file by what the external    *)
(* per-format code answers on it:                                           *)
(*   len     its length in bytes;                                           *)
(*   probes  the formats whose test() accepts it;                           *)
(*   magic   what goblin::mach::parse_magic_and_ctx reads at offset 0;      *)
(*   fatOk   MachArchive::test, machOk  MachArchive::parse;                 *)
(*   objs    per object slice, what the per-format parser and the debug     *)
(*           session constructor make of it (exactly one slice for the      *)
(*           single-object formats).                                        *)
(***************************************************************************)
MonoFormats == {"Elf", "Pdb", "Pe", "SourceBundle", "Wasm"}
ThinMagics == {"MH_CIGAM_64", "MH_CIGAM", "MH_MAGIC_64", "MH_MAGIC"}
MinPeekLen == 16

Slice(parseOk, sessionOk, funcs) ==
    [parseOk |-> parseOk, sessionOk |-> sessionOk, funcs |-> funcs]

Buffer(len, probes, magic, fatOk, machOk, objs) ==
    [len |-> len, probes |-> probes, magic |-> magic, fatOk |-> fatOk,
     machOk |-> machOk, objs |-> objs]

\* goblin::mach::parse_magic_and_ctx(data, 0): a 4-byte read at offset 0.
ParseMagic(data) == IF data.len >= 4 THEN Ok(data.magic) ELSE Err("scroll")

\* data.pread_with::<u32>(4, BE): a 4-byte read at offset 4.
Pread4(data) == data.len >= 8

\* Mutant of peek: the fat branch ignores the `archive` flag.
peekFatAlways(data, arch) ==
    IF data.len < MinPeekLen THEN "Unknown"
    ELSE IF "Elf" \in data.probes THEN "Elf"
    ELSE IF "Pe" \in data.probes THEN "Pe"
    ELSE IF "Pdb" \in data.probes THEN "Pdb"
    ELSE IF "SourceBundle" \in data.probes THEN "SourceBundle"
    ELSE IF "Wasm" \in data.probes THEN "Wasm"
    ELSE LET magic == ParseMagic(data)
         IN  IF magic.ok /\ magic.val = "FAT_MAGIC"
             THEN IF Pread4(data) /\ data.fatOk THEN "MachO" ELSE "Unknown"
             ELSE IF magic.ok /\ magic.val \in ThinMagics THEN "MachO"
             ELSE "Unknown"

\* Mutant of peek: no minimum length.
peekNoMinLen(data, arch) ==
    IF "Elf" \in data.probes THEN "Elf"
    ELSE IF "Pe" \in data.probes THEN "Pe"
    ELSE IF "Pdb" \in data.probes THEN "Pdb"
    ELSE IF "SourceBundle" \in data.probes THEN "SourceBundle"
    ELSE IF "Wasm" \in data.probes THEN "Wasm"
    ELSE LET magic == ParseMagic(data)
         IN  IF magic.ok /\ magic.val = "FAT_MAGIC"
             THEN IF Pread4(data) /\ arch /\ data.fatOk
                  THEN "MachO" ELSE "Unknown"
             ELSE IF magic.ok /\ magic.val \in ThinMagics THEN "MachO"
             ELSE "Unknown"

\* Mutant of peek: the `archive` flag gates every Mach-O magic.
peekArchGatesMach(data, arch) ==
    IF data.len < MinPeekLen THEN "Unknown"
    ELSE IF "Elf" \in data.probes THEN "Elf"
    ELSE IF "Pe" \in data.probes THEN "Pe"
    ELSE IF "Pdb" \in data.probes THEN "Pdb"
    ELSE IF "SourceBundle" \in data.probes THEN "SourceBundle"
    ELSE IF "Wasm" \in data.probes THEN "Wasm"
    ELSE LET magic == ParseMagic(data)
         IN  IF magic.ok /\ magic.val = "FAT_MAGIC"
             THEN IF Pread4(data) /\ arch /\ data.fatOk
                  THEN "MachO" ELSE "Unknown"
             ELSE IF magic.ok /\ magic.val \in ThinMagics /\ arch THEN "MachO"
             ELSE "Unknown"

\* mod.rs:125-164  peek
peek(data, arch) ==
    IF data.len < MinPeekLen THEN "Unknown"
    ELSE IF "Elf" \in data.probes THEN "Elf"
    ELSE IF "Pe" \in data.probes THEN "Pe"
    ELSE IF "Pdb" \in data.probes THEN "Pdb"
    ELSE IF "SourceBundle" \in data.probes THEN "SourceBundle"
    ELSE IF "Wasm" \in data.probes THEN "Wasm"
    ELSE LET magic == ParseMagic(data)
         IN  IF magic.ok /\ magic.val = "FAT_MAGIC"
             THEN IF Pread4(data) /\ arch /\ data.fatOk
                  THEN "MachO" ELSE "Unknown"
             ELSE IF magic.ok /\ magic.val \in ThinMagics THEN "MachO"
             ELSE "Unknown"

\* mod.rs:126-149: the format probes one call of peek consults, in order
\* (the fat structural check is behind `&& archive &&`).
peekConsults(data, arch) ==
    IF data.len < MinPeekLen THEN <<>>
    ELSE IF "Elf" \in data.probes THEN <<"Elf">>
    ELSE IF "Pe" \in data.probes THEN <<"Elf", "Pe">>
    ELSE IF "Pdb" \in data.probes THEN <<"Elf", "Pe", "Pdb">>
    ELSE IF "SourceBundle" \in data.probes
    THEN <<"Elf", "Pe", "Pdb", "SourceBundle">>
    ELSE IF "Wasm" \in data.probes
    THEN <<"Elf", "Pe", "Pdb", "SourceBundle", "Wasm">>
    ELSE <<"Elf", "Pe", "Pdb", "SourceBundle", "Wasm", "MachMagic">>
         \o (IF ParseMagic(data).ok /\ ParseMagic(data).val = "FAT_MAGIC"
                /\ Pread4(data) /\ arch
             THEN <<"MachArchive">> ELSE <<>>)

\* mod.rs:551-553  Archive::peek
ArchivePeek(data) == peek(data, TRUE)

\* mono_archive.rs:14-82  P::parse(data): the single-object parser of format P.
MonoParserParse(format, data) ==
    IF Len(data.objs) >= 1 /\ data.objs[1].parseOk
    THEN Ok([format |-> format, sessionOk |-> data.objs[1].sessionOk,
             funcs |-> data.objs[1].funcs])
    ELSE Err(format)

\* mono_archive.rs:93-98  MonoArchive::new: keeps the slice, parses nothing.
MonoArchiveNew(format, data) == [format |-> format, data |-> data]

\* Mutants of Archive::parse: an Unknown buffer accepted as an Elf archive;
\* the single-object parser run (and its failure returned) at construction.
ArchiveParseUnknownAsElf(data) ==
    LET format == ArchivePeek(data)
    IN  IF format \in MonoFormats
        THEN [res |-> Ok(MonoArchiveNew(format, data)), ran |-> <<>>]
        ELSE IF format = "MachO"
        THEN [res |-> IF data.machOk
                      THEN Ok([format |-> "MachO", data |-> data])
                      ELSE Err("Transparent"),
              ran |-> <<"MachArchive">>]
        ELSE [res |-> Ok(MonoArchiveNew("Elf", data)), ran |-> <<>>]

\* Mutant of ArchiveParse: the single-object parser runs at construction.
ArchiveParseEager(data) ==
    LET format == ArchivePeek(data)
    IN  IF format \in MonoFormats
        THEN [res |-> IF MonoParserParse(format, data).ok
                      THEN Ok(MonoArchiveNew(format, data))
                      ELSE Err("Transparent"),
              ran |-> <<format>>]
        ELSE IF format = "MachO"
        THEN [res |-> IF data.machOk
                      THEN Ok([format |-> "MachO", data |-> data])
                      ELSE Err("Transparent"),
              ran |-> <<"MachArchive">>]
        ELSE [res |-> Err("UnsupportedObject"), ran |-> <<>>]

\* mod.rs:556-575  Archive::parse.  res is the Result returned, ran the
\* parsers that were run to produce it.
ArchiveParse(data) ==
    LET format == ArchivePeek(data)
    IN  IF format \in MonoFormats
        THEN [res |-> Ok(MonoArchiveNew(format, data)), ran |-> <<>>]
        ELSE IF format = "MachO"
        THEN [res |-> IF data.machOk
                      THEN Ok([format |-> "MachO", data |-> data])
                      ELSE Err("Transparent"),
              ran |-> <<"MachArchive">>]
        ELSE [res |-> Err("UnsupportedObject"), ran |-> <<>>]

(***************************************************************************)
(* Archive::objects and the ObjectIterator (mod.rs:577-613,                 *)
(* mono_archive.rs:100-166).  An iterator is [format, slot, slices]: slot   *)
(* is MonoArchiveObjects' Option<Result<P, P::Error>>, slices what is left  *)
(* of a MachObjectIterator.                                                 *)
(***************************************************************************)
\* mono_archive.rs:100-102  MonoArchive::object
MonoArchiveObject(a) == MonoParserParse(a.format, a.data)

\* mod.rs:578-581 with mono_archive.rs:104-107: objects() of a single-object
\* archive runs the parser and stores its result; of a Mach-O archive it
\* only positions the slice iterator.
ArchiveObjects(a) ==
    IF a.format \in MonoFormats
    THEN [iter |-> [format |-> a.format, slot |-> Some(MonoArchiveObject(a)),
                    slices |-> <<>>],
          ran |-> <<a.format>>]
    ELSE [iter |-> [format |-> a.format, slot |-> None,
                    slices |-> a.data.objs],
          ran |-> <<>>]

\* map_result! (mod.rs:48-61): the per-format value tagged with its format,
\* the per-format error made an opaque ObjectError.
MapResult(format, r) ==
    IF r.ok THEN Ok(r.val) ELSE Err("Transparent")

\* Mutant of the iterator's next: the stored item is handed out without
\* being taken.
ObjectIteratorNextNoTake(it) ==
    IF it.format \in MonoFormats
    THEN IF IsSome(it.slot)
         THEN [item |-> Some(MapResult(it.format, Unwrap(it.slot))),
               iter |-> it, ran |-> <<>>]
         ELSE [item |-> None, iter |-> it, ran |-> <<>>]
    ELSE IF it.slices = <<>>
         THEN [item |-> None, iter |-> it, ran |-> <<>>]
         ELSE [item |-> Some(MapResult("MachO",
                            IF Head(it.slices).parseOk
                            THEN Ok([format |-> "MachO",
                                     sessionOk |-> Head(it.slices).sessionOk,
                                     funcs |-> Head(it.slices).funcs])
                            ELSE Err("MachO"))),
               iter |-> [it EXCEPT !.slices = Tail(@)],
               ran |-> <<"MachO">>]

\* mod.rs:600-605 ObjectIterator::next over mono_archive.rs:152-154
\* (self.0.take()) or over the Mach-O slice iterator.
ObjectIteratorNext(it) ==
    IF it.format \in MonoFormats
    THEN IF IsSome(it.slot)
         THEN [item |-> Some(MapResult(it.format, Unwrap(it.slot))),
               iter |-> [it EXCEPT !.slot = None], ran |-> <<>>]
         ELSE [item |-> None, iter |-> it, ran |-> <<>>]
    ELSE IF it.slices = <<>>
         THEN [item |-> None, iter |-> it, ran |-> <<>>]
         ELSE [item |-> Some(MapResult("MachO",
                            IF Head(it.slices).parseOk
                            THEN Ok([format |-> "MachO",
                                     sessionOk |-> Head(it.slices).sessionOk,
                                     funcs |-> Head(it.slices).funcs])
                            ELSE Err("MachO"))),
               iter |-> [it EXCEPT !.slices = Tail(@)],
               ran |-> <<"MachO">>]

\* mod.rs:607-609 over mono_archive.rs:156-162
SizeHint(it) ==
    IF it.format \in MonoFormats
    THEN IF IsSome(it.slot) THEN <<1, Some(1)>> ELSE <<0, Some(0)>>
    ELSE <<Len(it.slices), Some(Len(it.slices))>>

(***************************************************************************)
(* Debug sessions and their functions (mod.rs:262-289, 377-404, 464-483).   *)
(***************************************************************************)
\* mod.rs:263-288: the ObjectDebugSession variant each format maps into.
\* Mutant of SessionKind: Wasm objects get a session kind of their own.
SessionKindWasmOwn(format) ==
    CASE format = "Elf" -> "Dwarf"
      [] format = "MachO" -> "Dwarf"
      [] format = "Pdb" -> "Pdb"
      [] format = "Pe" -> "Pe"
      [] format = "SourceBundle" -> "SourceBundle"
      [] format = "Wasm" -> "Wasm"

SessionKind(format) ==
    CASE format = "Elf" -> "Dwarf"
      [] format = "MachO" -> "Dwarf"
      [] format = "Pdb" -> "Pdb"
      [] format = "Pe" -> "Pe"
      [] format = "SourceBundle" -> "SourceBundle"
      [] format = "Wasm" -> "Dwarf"

\* mod.rs:262-289  Object::debug_session
DebugSession(object) ==
    IF object.sessionOk
    THEN Ok([kind |-> SessionKind(object.format), funcs |-> object.funcs])
    ELSE Err("Transparent")

\* mod.rs:395-404  ObjectDebugSession::functions
SessionFunctions(session) == session.funcs

\* mod.rs:467-482  ObjectFunctionIterator::next
FunctionIteratorNext(it) ==
    IF it = <<>>
    THEN [item |-> None, iter |-> it]
    ELSE [item |-> Some(IF Head(it).ok THEN Head(it) ELSE Err("Transparent")),
          iter |-> Tail(it)]

\* symbolic_demangle's Demangle::demangle with DemangleOptions::name_only()
\* (lib.rs:132): the source-level path of a mangled Rust symbol, without its
\* hash or signature; nothing for a symbol no demangler recognises.
Demangle(name) ==
    CASE name = "_ZN1a17h0011E" -> Some("a")
      [] name = "_ZN1b17h0022E" -> Some("b")
      [] name = "_RNvCs1_1a" -> Some("a")
      [] OTHER -> None

(***************************************************************************)
(* The process: its files and the modules it may have loaded.               *)
(***************************************************************************)
Line(dir, name, line) == [file |-> [dir |-> dir, name |-> name], line |-> line]

FnA == Ok(Function("_ZN1a17h0011E",
                   <<Line("", "a.rs", <<3, 0, 0, 0>>),
                     Line("", "a.rs", <<9, 0, 0, 0>>)>>))
FnANoLines == Ok(Function("_ZN1a17h0011E", <<>>))
FnAv0 == Ok(Function("_RNvCs1_1a", <<Line("/src", "b.rs", <<10, 0, 0, 0>>)>>))
FnB == Ok(Function("_ZN1b17h0022E",
                   <<Line("/src", "b.rs", <<42, 0, 1, 0>>)>>))
FnMemcpy == Ok(Function("memcpy", <<Line("", "a.rs", <<1, 0, 0, 0>>)>>))
FnErr == Err("fn")

ElfBuffer(objs) == Buffer(64, {"Elf"}, "other", FALSE, FALSE, objs)

\* std::fs::read (lib.rs:110) on the files of this machine.
FsRead(path) ==
    CASE path = "/proc/self/exe" ->
            Ok(ElfBuffer(<<Slice(TRUE, TRUE,
                                 <<FnMemcpy, FnErr, FnB, FnANoLines>>)>>))
      [] path = "liba.so" ->
            Ok(ElfBuffer(<<Slice(TRUE, TRUE, <<FnA, FnB>>)>>))
      [] path = "liba.pdb" ->
            Ok(Buffer(64, {"Pdb"}, "other", FALSE, FALSE,
                      <<Slice(TRUE, TRUE, <<FnAv0>>)>>))
      [] path = "junk.bin" ->
            Ok(Buffer(64, {}, "other", FALSE, FALSE,
                      <<Slice(TRUE, TRUE, <<FnA>>)>>))
      [] path = "fat.dylib" ->
            Ok(Buffer(64, {}, "FAT_MAGIC", TRUE, TRUE,
                      <<Slice(FALSE, FALSE, <<FnA>>),
                        Slice(TRUE, FALSE, <<FnA>>),
                        Slice(TRUE, TRUE, <<FnB, FnA>>)>>))
      [] path = "badfat.dylib" ->
            Ok(Buffer(64, {}, "FAT_MAGIC", TRUE, FALSE,
                      <<Slice(TRUE, TRUE, <<FnA>>)>>))
      [] path = "bad.so" ->
            Ok(ElfBuffer(<<Slice(FALSE, TRUE, <<FnA>>)>>))
      [] path = "nosess.so" ->
            Ok(ElfBuffer(<<Slice(TRUE, FALSE, <<FnA>>)>>))
      [] OTHER -> Err("io")

\* What findshlibs reports of a loaded module: SharedLibrary::name and
\* SharedLibrary::debug_name (lib.rs:91-92).
Descriptors ==
    { <<"", None>>, <<"", Some("liba.pdb")>>,
      <<"liba.so", None>>, <<"liba.so", Some("liba.pdb")>>,
      <<"liba.so", Some("gone.debug")>>, <<"gone.so", None>>,
      <<"junk.bin", None>>, <<"fat.dylib", None>>,
      <<"badfat.dylib", None>>, <<"bad.so", None>>, <<"nosess.so", None>> }

SeqsUpTo(S, n) == UNION { [1..k -> S] : k \in 0..n }

\* std::env::current_exe (lib.rs:103)
CurrentExes == { Ok("/proc/self/exe"), Err("io") }

Targets == {"a", "b", "_ZN1a17h0011E"}

\* The buffers SpecArchive parses.
Buffers ==
    { Buffer(len, probes, magic, fatOk, machOk, objs) :
        len \in {8, 64},
        probes \in { {}, {"Elf"}, {"Pe"}, {"Pdb"}, {"SourceBundle"},
                     {"Wasm"}, {"Pe", "Wasm"} },
        magic \in {"FAT_MAGIC", "MH_MAGIC_64", "other"},
        fatOk \in BOOLEAN, machOk \in BOOLEAN,
        objs \in { <<Slice(FALSE, TRUE, <<FnA>>)>>,
                   <<Slice(TRUE, TRUE, <<FnA>>)>>,
                   <<Slice(FALSE, TRUE, <<>>), Slice(TRUE, FALSE, <<FnB>>)>> } }

\* The buffers SpecPeek classifies.  The first bytes of a buffer are one
\* value: a buffer that starts with a Mach-O magic passes no other format's
\* test, a buffer passes the test of at most one format, and a test reads
\* at least a 4-byte magic.
PeekBuffers ==
    { Buffer(len, {}, "other", FALSE, FALSE, <<>>) : len \in {0, 4, 8, 15, 16, 64} }
    \cup
    { Buffer(len, {x}, "other", FALSE, FALSE, <<>>) :
        len \in {4, 8, 15, 16, 64}, x \in MonoFormats }
    \cup
    { Buffer(len, {}, magic, fatOk, FALSE, <<>>) :
        len \in {0, 4, 8, 15, 16, 64},
        magic \in {"FAT_MAGIC"} \cup ThinMagics,
        fatOk \in BOOLEAN }

(***************************************************************************)
(* The scan: for_some_currently_loaded_rust_functions (lib.rs:82-143) and   *)
(* declaration_by_name (lib.rs:51-62) around it.                            *)
(***************************************************************************)
Logged(e) == log' = Append(log, e)
LoggedAll(es) == log' = log \o es

\* Mutant of ResolvePath: the empty module path is tested before the debug
\* path.
ResolvePathEmptyFirst(library_path, debug_path) ==
    IF library_path = "" THEN exe
    ELSE IF IsSome(debug_path) THEN Ok(Unwrap(debug_path))
    ELSE Ok(library_path)

\* lib.rs:100-109: the path whose file is read for a module, or the failure
\* of current_exe.
ResolvePath(library_path, debug_path) ==
    IF IsSome(debug_path) THEN Ok(Unwrap(debug_path))
    ELSE IF library_path = "" THEN exe
    ELSE Ok(library_path)

\* Mutant of IntoIterationControl: unit taken as Break.
IntoIterationControlUnitBreaks(c) == IF c = "Unit" THEN "Break" ELSE c

\* findshlibs: impl From<()> for IterationControl (lib.rs:84, 134).
IntoIterationControl(c) == IF c = "Unit" THEN "Continue" ELSE c

\* Mutant of ByNameCallback: the match is recorded and the scan goes on.
ByNameCallbackNoBreak(demangled_name, fn) ==
    IF demangled_name = target
    THEN [ret |-> "Continue", result |-> ResultOk(TryFrom(fn))]
    ELSE [ret |-> "Continue", result |-> result]

\* Mutant of ByNameCallback: a match without line records is passed over.
ByNameCallbackSkipsLineless(demangled_name, fn) ==
    IF demangled_name = target /\ TryFrom(fn).ok
    THEN [ret |-> "Break", result |-> ResultOk(TryFrom(fn))]
    ELSE [ret |-> "Continue", result |-> result]

\* lib.rs:53-60: the closure declaration_by_name hands to the scan.  ret is
\* the value it returns, result the captured variable after the call.
ByNameCallback(demangled_name, fn) ==
    IF demangled_name = target
    THEN [ret |-> "Break", result |-> ResultOk(TryFrom(fn))]
    ELSE [ret |-> "Continue", result |-> result]

\* The values a caller's handler may return: any C: Into<IterationControl>.
HandlerReturns == {"Break", "Continue", "Unit"}

\* Mutant of AfterCallback: Break leaves only the innermost loop.
AfterCallbackInnerBreak(c) ==
    IF IntoIterationControl(c) = "Break" THEN "object" ELSE "function"

\* lib.rs:134-137: where the scan goes after the callback returned `c`.
AfterCallback(c) ==
    IF IntoIterationControl(c) = "Break" THEN "returned" ELSE "function"

\* Mutant of Push: the entry is put in front.
PushFront(vec, library) == <<(<<library[1], library[2]>>)>> \o vec

\* Mutant of SnapshotExhausted: the loop stops one module early.
SnapshotExhaustedEarly == li >= Len(libraries)

\* Mutant of SkipModule: a failing module ends the scan.
SkipModuleAborts == [pc |-> "returned", li |-> li]

\* lib.rs:90-93: libraries.push((name, debug_name)).
Push(vec, library) == Append(vec, <<library[1], library[2]>>)

\* lib.rs:99: the loop over the snapshot has no module left.
SnapshotExhausted == li > Len(libraries)

\* lib.rs:105, 112, 116: `continue`: on to the next module of the snapshot.
SkipModule == [pc |-> "module", li |-> li + 1]

\* Mutant of SkipObject: a failing object ends the loop over the archive's
\* objects and the scan.
SkipObjectAborts == "returned"

\* lib.rs:121, 125: `continue`: on to the next object of the same archive.
SkipObject == "object"

\* Mutant of SkipFunction: a record that failed or does not demangle ends
\* the loop over the session's functions.
SkipFunctionEndsSession == "object"

\* lib.rs:128-139: a record that is not Ok, or whose name does not
\* demangle, falls through both `if let`: on to the next function.
SkipFunction == "function"

\* lib.rs:51-53, 86-89: the call; TargetSharedLibrary::each is entered.
Call ==
    /\ pc = "start"
    /\ mode \in {"by_name", "generic"}
    /\ result' = None
    /\ libraries' = <<>>
    /\ eachIdx' = 0
    /\ pc' = "each"
    /\ Logged(<<"each">>)
    /\ UNCHANGED <<osLibs, exe, mode, target, li, file_data, archive, objects,
                   oi, functions, fi, function, site, ret, rets, pulls>>

\* lib.rs:89-94: the closure run by `each` for one loaded library.
EachCallback ==
    /\ pc = "each"
    /\ eachIdx < Len(osLibs)
    /\ eachIdx' = eachIdx + 1
    /\ libraries' = Push(libraries, osLibs[eachIdx + 1])
    /\ Logged(<<"copy", eachIdx + 1>>)
    /\ UNCHANGED <<osLibs, exe, mode, target, pc, li, file_data, archive,
                   objects, oi, functions, fi, function, result, site, ret,
                   rets, pulls>>

\* lib.rs:94, 99: `each` returns; the loop over the snapshot starts.
EachReturn ==
    /\ pc = "each"
    /\ eachIdx = Len(osLibs)
    /\ pc' = "module"
    /\ li' = 1
    /\ Logged(<<"each_end">>)
    /\ UNCHANGED <<osLibs, exe, mode, target, libraries, eachIdx, file_data,
                   archive, objects, oi, functions, fi, function, result, site,
                   ret, rets, pulls>>

\* lib.rs:99-113: the next module of the snapshot: its path and its bytes.
Module ==
    /\ pc = "module"
    /\ IF SnapshotExhausted
       THEN /\ pc' = "returned"
            /\ UNCHANGED <<li, file_data, log>>
       ELSE LET path == ResolvePath(libraries[li][1], libraries[li][2])
            IN  IF ~path.ok
                THEN /\ li' = SkipModule.li
                     /\ pc' = SkipModule.pc
                     /\ Logged(<<"current_exe_failed", li>>)
                     /\ UNCHANGED file_data
                ELSE LET read == FsRead(path.val)
                     IN  /\ Logged(<<"read", li, path.val>>)
                         /\ IF read.ok
                            THEN /\ file_data' = read.val
                                 /\ pc' = "parse"
                                 /\ UNCHANGED li
                            ELSE /\ li' = SkipModule.li
                                 /\ pc' = SkipModule.pc
                                 /\ UNCHANGED file_data
    /\ UNCHANGED <<osLibs, exe, mode, target, libraries, eachIdx, archive,
                   objects, oi, functions, fi, function, result, site, ret,
                   rets, pulls>>

\* lib.rs:114-118: Archive::parse, then archive.objects().
ParseArchive ==
    /\ pc = "parse"
    /\ LET parsed == ArchiveParse(file_data)
       IN  /\ archive' = parsed.res
           /\ IF parsed.res.ok
              THEN LET objs == ArchiveObjects(parsed.res.val)
                   IN  /\ objects' = objs.iter
                       /\ oi' = 0
                       /\ pc' = "object"
                       /\ LoggedAll(<< <<"parse", li, parsed.ran>>,
                                       <<"objects", li, objs.ran>> >>)
                       /\ UNCHANGED li
              ELSE /\ li' = SkipModule.li
                   /\ pc' = SkipModule.pc
                   /\ Logged(<<"parse", li, parsed.ran>>)
                   /\ UNCHANGED <<objects, oi>>
    /\ UNCHANGED <<osLibs, exe, mode, target, libraries, eachIdx, file_data,
                   functions, fi, function, result, site, ret, rets, pulls>>

\* lib.rs:118-127: the next object of the archive and its debug session.
Object ==
    /\ pc = "object"
    /\ LET next == ObjectIteratorNext(objects)
       IN  /\ objects' = next.iter
           /\ IF ~IsSome(next.item)
              THEN /\ li' = li + 1
                   /\ pc' = "module"
                   /\ UNCHANGED <<oi, functions, fi, log>>
              ELSE /\ oi' = oi + 1
                   /\ UNCHANGED li
                   /\ IF ~Unwrap(next.item).ok
                      THEN /\ Logged(<<"object", li, oi + 1, next.ran>>)
                           /\ pc' = SkipObject
                           /\ UNCHANGED <<functions, fi>>
                      ELSE LET session == DebugSession(Unwrap(next.item).val)
                           IN  /\ LoggedAll(<< <<"object", li, oi + 1, next.ran>>,
                                               <<"session", li, oi + 1>> >>)
                               /\ IF session.ok
                                  THEN /\ functions' = SessionFunctions(session.val)
                                       /\ fi' = 0
                                       /\ pc' = "function"
                                  ELSE /\ pc' = SkipObject
                                       /\ UNCHANGED <<functions, fi>>
    /\ UNCHANGED <<osLibs, exe, mode, target, libraries, eachIdx, file_data,
                   archive, function, result, site, ret, rets, pulls>>

\* What one invocation of the callback may produce: the closure of
\* declaration_by_name, or any handler of a caller of the generalized scan.
CallbackOutcomes(demangled_name, fn) ==
    IF mode = "by_name"
    THEN {ByNameCallback(demangled_name, fn)}
    ELSE {[ret |-> c, result |-> result] : c \in HandlerReturns}

\* lib.rs:127-140: the next function record of the session: skipped when it
\* failed or does not demangle, handed to the callback otherwise.
NextFunction ==
    /\ pc = "function"
    /\ LET next == FunctionIteratorNext(functions)
       IN  /\ functions' = next.iter
           /\ IF ~IsSome(next.item)
              THEN /\ pc' = "object"
                   /\ UNCHANGED <<fi, function, result, rets, log>>
              ELSE /\ fi' = fi + 1
                   /\ IF ~Unwrap(next.item).ok
                      THEN /\ Logged(<<"fn", li, oi, fi + 1, "failed">>)
                           /\ pc' = SkipFunction
                           /\ UNCHANGED <<function, result, rets>>
                      ELSE LET fn == Unwrap(next.item).val
                               demangled == Demangle(fn.name)
                           IN  IF ~IsSome(demangled)
                               THEN /\ Logged(<<"fn", li, oi, fi + 1, "declined">>)
                                    /\ pc' = SkipFunction
                                    /\ UNCHANGED <<function, result, rets>>
                               ELSE \E out \in CallbackOutcomes(Unwrap(demangled), fn) :
                                      /\ function' = fn
                                      /\ result' = out.result
                                      /\ rets' = IF rets = <<>>
                                                 THEN <<out.ret, out.ret>>
                                                 ELSE <<rets[1], out.ret>>
                                      /\ pc' = AfterCallback(out.ret)
                                      /\ Logged(<<"call", li, oi, fi + 1,
                                                  Unwrap(demangled)>>)
    /\ UNCHANGED <<osLibs, exe, mode, target, libraries, eachIdx, li,
                   file_data, archive, objects, oi, site, ret, pulls>>

\* What a finished operation handed to its caller: a value, or () for a
\* function without return type.
Returned(v) == [kind |-> "value", val |-> v]
Unit == [kind |-> "unit"]
Pending == [kind |-> "pending"]

\* lib.rs:61 and lib.rs:143: the operation returns to its caller:
\* declaration_by_name returns `result`, the generalized scan returns ().
Return ==
    /\ pc = "returned"
    /\ pc' = "done"
    /\ ret' = IF mode = "by_name" THEN Returned(result) ELSE Unit
    /\ UNCHANGED <<osLibs, exe, mode, target, libraries, eachIdx, li,
                   file_data, archive, objects, oi, functions, fi, function,
                   result, site, rets, log, pulls>>

(***************************************************************************)
(* Archive::parse, objects() and pulls on one buffer (SpecArchive).         *)
(***************************************************************************)
\* mod.rs:556-575
ArchParse ==
    /\ pc = "arch_start"
    /\ LET parsed == ArchiveParse(file_data)
       IN  /\ archive' = parsed.res
           /\ Logged(<<"parse", 0, parsed.ran>>)
           /\ pc' = IF parsed.res.ok THEN "arch_parsed" ELSE "arch_failed"
    /\ UNCHANGED <<osLibs, exe, mode, target, libraries, eachIdx, li,
                   file_data, objects, oi, functions, fi, function, result,
                   site, ret, rets, pulls>>

\* mod.rs:578-581
ArchObjects ==
    /\ pc = "arch_parsed"
    /\ LET objs == ArchiveObjects(archive.val)
       IN  /\ objects' = objs.iter
           /\ Logged(<<"objects", 0, objs.ran>>)
    /\ pc' = "arch_iter"
    /\ UNCHANGED <<osLibs, exe, mode, target, libraries, eachIdx, li,
                   file_data, archive, oi, functions, fi, function, result,
                   site, ret, rets, pulls>>

\* mod.rs:600-609: one pull, and the size hint read after it.
ArchNext ==
    /\ pc = "arch_iter"
    /\ Len(pulls) < MaxPulls
    /\ LET next == ObjectIteratorNext(objects)
       IN  /\ objects' = next.iter
           /\ pulls' = Append(pulls, <<next.item, SizeHint(next.iter)>>)
           /\ Logged(<<"next", 0, next.ran>>)
    /\ UNCHANGED <<osLibs, exe, mode, target, pc, libraries, eachIdx, li,
                   file_data, archive, oi, functions, fi, function, result,
                   site, ret, rets>>

\* mod.rs:262-289: debug_session() on the object the latest pull yielded.
ArchDebugSession ==
    /\ pc = "arch_iter"
    /\ pulls # <<>>
    /\ log[Len(log)][1] = "next"
    /\ LET item == pulls[Len(pulls)][1]
       IN  /\ IsSome(item)
           /\ Unwrap(item).ok
           /\ Logged(<<"debug_session", 0, Unwrap(item).val.format,
                       DebugSession(Unwrap(item).val)>>)
    /\ UNCHANGED <<osLibs, exe, mode, target, pc, libraries, eachIdx, li,
                   file_data, archive, objects, oi, functions, fi, function,
                   result, site, ret, rets, pulls>>

(***************************************************************************)
(* DeclarationSite::try_from on one Function (SpecSite).                    *)
(***************************************************************************)
\* lib.rs:190-201
SiteTryFrom ==
    /\ pc = "site_start"
    /\ site' = Some(TryFrom(function))
    /\ pc' = "site_done"
    /\ UNCHANGED <<osLibs, exe, mode, target, libraries, eachIdx, li,
                   file_data, archive, objects, oi, functions, fi, function,
                   result, ret, rets, log, pulls>>

(***************************************************************************)
(* peek on one buffer, called with either flag (SpecPeek).                  *)
(***************************************************************************)
\* mod.rs:125-164: one call peek(data, archive); the history keeps the flag,
\* the tag returned and the probes consulted.
PeekCall ==
    /\ pc = "peek"
    /\ Len(log) < MaxPeeks
    /\ \E arch \in BOOLEAN :
          Logged(<<"peek", arch, peek(file_data, arch),
                   peekConsults(file_data, arch)>>)
    /\ UNCHANGED <<osLibs, exe, mode, target, pc, libraries, eachIdx, li,
                   file_data, archive, objects, oi, functions, fi, function,
                   result, site, ret, rets, pulls>>

(***************************************************************************)
(* Specifications.                                                          *)
(***************************************************************************)
NoBuffer == Buffer(0, {}, "other", FALSE, FALSE, <<>>)
NoIterator == [format |-> "Elf", slot |-> None, slices |-> <<>>]
NoFunction == Function("", <<>>)

Idle ==
    /\ libraries = <<>> /\ eachIdx = 0 /\ li = 0
    /\ archive = Err("none") /\ objects = NoIterator /\ oi = 0
    /\ functions = <<>> /\ fi = 0
    /\ result = None /\ site = None /\ ret = Pending /\ rets = <<>>
    /\ log = <<>> /\ pulls = <<>>

Init ==
    /\ osLibs \in SeqsUpTo(Descriptors, MaxLibs)
    /\ exe \in CurrentExes
    /\ \/ mode = "by_name" /\ target \in Targets
       \/ mode = "generic" /\ target = ""
    /\ pc = "start"
    /\ file_data = NoBuffer
    /\ function = NoFunction
    /\ Idle

Next ==
    \/ Call
    \/ EachCallback
    \/ EachReturn
    \/ Module
    \/ ParseArchive
    \/ Object
    \/ NextFunction
    \/ Return

Spec == Init /\ [][Next]_vars

InitArchive ==
    /\ osLibs = <<>> /\ exe = Err("io") /\ mode = "archive" /\ target = ""
    /\ pc = "arch_start"
    /\ file_data \in Buffers
    /\ function = NoFunction
    /\ Idle

NextArchive == ArchParse \/ ArchObjects \/ ArchNext \/ ArchDebugSession

SpecArchive == InitArchive /\ [][NextArchive]_vars

InitSite ==
    /\ osLibs = <<>> /\ exe = Err("io") /\ mode = "site" /\ target = ""
    /\ pc = "site_start"
    /\ file_data = NoBuffer
    /\ function \in { Function("_ZN1a17h0011E", lines) :
                        lines \in SeqsUpTo(LineInfos, MaxLines) }
    /\ Idle

NextSite == SiteTryFrom

SpecSite == InitSite /\ [][NextSite]_vars

InitPeek ==
    /\ osLibs = <<>> /\ exe = Err("io") /\ mode = "peek" /\ target = ""
    /\ pc = "peek"
    /\ file_data \in PeekBuffers
    /\ function = NoFunction
    /\ Idle

NextPeek == PeekCall

SpecPeek == InitPeek /\ [][NextPeek]_vars

(***************************************************************************)
(* What the claims speak of, stated over the process (osLibs, exe, the      *)
(* files) and over the history `log`.                                       *)
(***************************************************************************)
Events(kind) == SelectSeq(log, LAMBDA e : e[1] = kind)
Calls == Events("call")
HasEvent(kind, i) == \E n \in 1..Len(log) : log[n][1] = kind /\ log[n][2] = i
Last(q) == q[Len(q)]

\* The handler's latest return value was the termination signal.
Broke == rets # <<>> /\ rets[2] = "Break"

\* Lexicographic order of positions <<module, object, function>>.
Before(s, t) ==
    \/ s[1] < t[1]
    \/ s[1] = t[1] /\ s[2] < t[2]
    \/ s[1] = t[1] /\ s[2] = t[2] /\ s[3] < t[3]

\* The file a module's debug information is to be read from: the debug-file
\* path if present, else the running executable for an empty module path,
\* else the module path.  None when no path can be had.
ChosenPath(lib) ==
    IF lib[2] # None THEN Some(lib[2][1])
    ELSE IF lib[1] = "" THEN (IF exe.ok THEN Some(exe.val) ELSE None)
    ELSE Some(lib[1])

\* The bytes of module i, when its file can be read.
ModBytes(i) ==
    LET path == ChosenPath(osLibs[i])
    IN  IF path = None THEN None
        ELSE LET read == FsRead(path[1])
             IN  IF read.ok THEN Some(read.val) ELSE None

\* Module i can be read and its bytes make an Archive.
ModGood(i) ==
    LET bytes == ModBytes(i)
    IN  /\ bytes # None
        /\ peek(bytes[1], TRUE) # "Unknown"
        /\ peek(bytes[1], TRUE) = "MachO" => bytes[1].machOk

\* The object slices of module i: one for a single-object format.
ModSlices(i) ==
    LET bytes == ModBytes(i)
    IN  IF bytes = None THEN <<>>
        ELSE LET format == peek(bytes[1], TRUE)
             IN  IF format = "Unknown" THEN <<>>
                 ELSE IF format = "MachO"
                 THEN (IF bytes[1].machOk THEN bytes[1].objs ELSE <<>>)
                 ELSE SubSeq(bytes[1].objs, 1, 1)

\* The functions of a slice the handler can be given: the slice parses, its
\* debug session opens, the record is yielded without error and demangles.
SliceCallable(slice) ==
    IF slice.parseOk /\ slice.sessionOk
    THEN { k \in 1..Len(slice.funcs) :
             slice.funcs[k].ok /\ Demangle(slice.funcs[k].val.name) # None }
    ELSE {}

\* The positions <<module, object, function>> of the functions the handler
\* can be given.
Callable ==
    UNION { LET slices == ModSlices(i)
            IN  UNION { { <<i, j, k>> : k \in SliceCallable(slices[j]) }
                        : j \in 1..Len(slices) }
            : i \in 1..Len(osLibs) }

FnAt(t) == ModSlices(t[1])[t[2]].funcs[t[3]].val
DemangledAt(t) == Demangle(FnAt(t).name)[1]

CallPos(e) == <<e[2], e[3], e[4]>>
Called == { CallPos(Calls[n]) : n \in 1..Len(Calls) }

\* The handler was invoked in scan order, without gap or repetition: the
\* calls are an initial segment of Callable.
CallsInScanOrder ==
    LET calls == Calls
        callable == Callable
        called == { CallPos(calls[n]) : n \in 1..Len(calls) }
    IN  /\ called \subseteq callable
        /\ \A n \in 1..Len(calls) - 1 :
              Before(CallPos(calls[n]), CallPos(calls[n + 1]))
        /\ \A t \in callable :
              (\E u \in called : Before(t, u)) => t \in called

\* by-name lookup: the functions whose demangled name is the target, and
\* the first of them in scan order (a set of at most one position).
Matches == LET callable == Callable
           IN  { t \in callable : DemangledAt(t) = target }
FirstMatch == LET matches == Matches
              IN  { t \in matches : \A u \in matches : u = t \/ Before(t, u) }

(***************************************************************************)
(* Claims about the scan (Spec).                                            *)
(***************************************************************************)
\* The module, object and function an event of the history is about.
AtOrBeforeMatch(e, t) ==
    CASE e[1] \in {"call", "fn"} -> ~Before(t, <<e[2], e[3], e[4]>>)
      [] e[1] \in {"object", "session"} ->
            e[2] < t[1] \/ (e[2] = t[1] /\ e[3] <= t[2])
      [] e[1] \in {"read", "parse", "objects", "current_exe_failed"} ->
            e[2] <= t[1]
      [] OTHER -> TRUE

\* C1: in declaration_by_name, the first function in scan order whose
\* demangled name equals the target ends the scan: nothing after it is handed
\* to the matcher, no later object or session is opened, no further module is
\* read, the call on it is the last thing the scan does, and the result is
\* derived from that function.
C1_FirstMatchStopsScan ==
    mode = "by_name" =>
      \A t \in FirstMatch :
        /\ \A n \in 1..Len(log) : AtOrBeforeMatch(log[n], t)
        /\ t \in Called =>
              /\ Last(log) = <<"call", t[1], t[2], t[3], target>>
              /\ pc \in {"returned", "done"}
              /\ function = FnAt(t)
              /\ result = ResultOk(TryFrom(FnAt(t)))
        /\ pc = "done" => t \in Called /\ ret = Returned(ResultOk(TryFrom(FnAt(t))))

\* C1 witness: a lookup has returned a site from a first match that is
\* followed by further callable functions and by a further module.
C1_Witness ==
    /\ pc = "done" /\ mode = "by_name" /\ ret.val # None
    /\ \E t \in FirstMatch :
          /\ t[1] < Len(osLibs)
          /\ \E u \in Matches : Before(t, u)
          /\ \E u \in Callable : u[1] = t[1] /\ Before(t, u)

\* C2: when no callable function demangles to the target,
\* declaration_by_name returns an absent result, only after every module of
\* the snapshot was examined and every callable function was compared, and
\* no failure on the way keeps it from returning.
C2_NoMatchExhausts ==
    (mode = "by_name" /\ Matches = {}) =>
        /\ result = None
        /\ pc = "done" =>
              /\ ret = Returned(None)
              /\ \A i \in 1..Len(osLibs) :
                    HasEvent("read", i) \/ HasEvent("current_exe_failed", i)
              /\ Called = Callable
        /\ pc # "done" => ENABLED Next

\* C2 witness: a lookup without match has returned after a snapshot of two or
\* more modules, one failing and one with callable functions.
C2_Witness ==
    /\ pc = "done" /\ mode = "by_name" /\ Matches = {} /\ ret = Returned(None)
    /\ Len(osLibs) >= 2
    /\ Callable # {}
    /\ \E i \in 1..Len(osLibs) : ~ModGood(i)

\* C3: once the handler has returned Break, it is not invoked again and
\* nothing further is processed; a handler that returns Break on its first
\* invocation is invoked once.
C3_BreakIsFinalState ==
    Broke => /\ Last(log)[1] = "call"
             /\ pc \in {"returned", "done"}
             /\ rets[1] = "Break" => Len(Calls) = 1

C3_BreakIsFinal ==
    /\ []C3_BreakIsFinalState
    /\ [][Broke => /\ UNCHANGED <<log, rets, li, objects, oi, functions, fi,
                                  file_data, archive, function, result>>
                   /\ Broke']_vars

\* C3 witness: a handler broke on its first invocation while callable
\* functions and modules were left.
C3_Witness ==
    /\ pc = "done" /\ mode = "generic" /\ Broke /\ rets[1] = "Break"
    /\ Cardinality(Callable) >= 3
    /\ \E t \in Called : t[1] < Len(osLibs)

C5_FailingModuleSkipped ==
    \A i \in 1..Len(osLibs) : ~ModGood(i) =>
        /\ \A n \in 1..Len(log) :
              log[n][1] \in {"objects", "object", "session", "fn", "call"}
                  => log[n][2] # i
        /\ i < li => pc # "returned" \/ Broke \/ li > Len(osLibs)
        /\ (pc = "done" /\ ~Broke) =>
              /\ \A k \in (i + 1)..Len(osLibs) :
                    HasEvent("read", k) \/ HasEvent("current_exe_failed", k)
              /\ Called = Callable

\* C5 witness: a finished scan whose first module was read but made no
\* Archive and whose second module had the handler invoked.
C5_Witness ==
    /\ pc = "done" /\ ~Broke
    /\ Len(osLibs) >= 2
    /\ ModBytes(1) # None /\ ~ModGood(1)
    /\ \E t \in Called : t[1] = 2

\* C6: the file read for a module is its debug-file path when it has one
\* (even with an empty module path), else the running executable when the
\* module path is empty, else the module path; and a module that has such a
\* path is read.
C6_PathChoice ==
    /\ \A n \in 1..Len(log) :
          log[n][1] = "read" => Some(log[n][3]) = ChosenPath(osLibs[log[n][2]])
    /\ \A i \in 1..Len(osLibs) :
          (pc \notin {"start", "each"} /\ i < li) =>
              (HasEvent("read", i) <=> ChosenPath(osLibs[i]) # None)

\* C6 witness: a module with an empty path and a debug file was read from the
\* debug file, and a module with an empty path and none from the executable.
C6_Witness ==
    /\ pc = "done"
    /\ \E n, m \in 1..Len(log) :
          /\ log[n][1] = "read" /\ log[n][3] = "liba.pdb"
          /\ osLibs[log[n][2]] = <<"", Some("liba.pdb")>>
          /\ log[m][1] = "read" /\ log[m][3] = "/proc/self/exe"
          /\ osLibs[log[m][2]] = <<"", None>>

\* The module-level steps of the history.
ModuleEvents ==
    SelectSeq(log, LAMBDA e : e[1] \in {"read", "current_exe_failed"})

\* C7: the enumeration is called once and only copies the (path, debug path)
\* pairs: nothing is read, parsed, opened, demangled or handed to the handler
\* before it has returned, and the modules processed afterwards are the
\* enumerated ones, in enumeration order.
C7_SnapshotFirst ==
    /\ Len(Events("each")) = (IF pc = "start" THEN 0 ELSE 1)
    /\ Len(Events("each_end")) = (IF pc \in {"start", "each"} THEN 0 ELSE 1)
    /\ pc = "each" =>
          /\ \A n \in 1..Len(log) : log[n][1] \in {"each", "copy"}
          /\ libraries = SubSeq(osLibs, 1, eachIdx)
          /\ file_data = NoBuffer /\ archive = Err("none") /\ rets = <<>>
    /\ pc \notin {"start", "each"} =>
          /\ libraries = osLibs
          /\ Len(Events("copy")) = Len(osLibs)
          /\ \A n \in 1..Len(ModuleEvents) : ModuleEvents[n][2] = n
          /\ (pc = "done" /\ ~Broke) => Len(ModuleEvents) = Len(osLibs)

\* C7 witness: a finished scan over two different modules, both read after
\* the enumeration.
C7_Witness ==
    /\ pc = "done"
    /\ Len(osLibs) >= 2 /\ osLibs[1] # osLibs[2]
    /\ HasEvent("read", 1) /\ HasEvent("read", 2)

(***************************************************************************)
(* Claims about DeclarationSite::try_from (SpecSite).                       *)
(***************************************************************************)
\* C8 as stated: try_from fails with MissingLines exactly when the function
\* has no line record, and otherwise its file and line equal the path and the
\* line number of the first record, for every line number.
C8_Original ==
    pc = "site_done" =>
        LET r == site[1]
        IN  /\ r.ok <=> function.lines # <<>>
            /\ ~r.ok => r.err = "MissingLines"
            /\ r.ok => /\ r.val.file = PathStr(function.lines[1].file)
                       /\ U32ToU64(r.val.line) = function.lines[1].line

\* C8 amended: try_from fails with MissingLines exactly when the function
\* has no line record; otherwise its file is the path of the first record
\* and its line is the low 32 bits of the first record's 64-bit line number
\* (the line number itself when that is below 2^32), whatever records follow.
C8_SiteOfFirstLine ==
    pc = "site_done" =>
        LET r == site[1]
        IN  /\ r.ok <=> function.lines # <<>>
            /\ ~r.ok => r.err = "MissingLines"
            /\ r.ok =>
                 LET first == function.lines[1]
                 IN  /\ r.val.file = PathStr(first.file)
                     /\ r.val.line = <<first.line[1], first.line[2]>>
                     /\ (first.line[3] = 0 /\ first.line[4] = 0)
                            => U32ToU64(r.val.line) = first.line

\* C8 witness: a site derived from a function with two different line
\* records, the first with a line number of 2^32 or more.
C8_Witness ==
    /\ pc = "site_done" /\ site[1].ok
    /\ Len(function.lines) >= 2
    /\ function.lines[1].file # function.lines[2].file
    /\ function.lines[1].line # function.lines[2].line
    /\ function.lines[1].line[3] # 0

(***************************************************************************)
(* Claims about Archive::parse and Archive::objects (SpecArchive).          *)
(***************************************************************************)
Parsed == pc \in {"arch_parsed", "arch_failed", "arch_iter"}

\* C9: Archive::parse of a buffer the detector (multi-arch allowed) calls
\* Unknown fails with UnsupportedObject; of a buffer it calls Elf, Pdb, Pe,
\* SourceBundle or Wasm it succeeds, as an archive of that format, without a
\* run of the per-format parser.
C9_ParseByFormat ==
    Parsed =>
        LET format == peek(file_data, TRUE)
        IN  /\ format = "Unknown" => archive = Err("UnsupportedObject")
            /\ format \in MonoFormats =>
                  /\ archive.ok
                  /\ archive.val.format = format
                  /\ archive.val.data = file_data
                  /\ log[1] = <<"parse", 0, <<>> >>

\* C9 witness: Archive::parse succeeded on a buffer of a single-object
\* format that its parser rejects.
C9_Witness ==
    /\ pc = "arch_parsed"
    /\ peek(file_data, TRUE) \in MonoFormats
    /\ ~file_data.objs[1].parseOk
    /\ archive.ok

\* C10: the objects() iterator of a non-Mach-O archive yields one item (an
\* Object of the archive's format or an error) on the first pull and nothing
\* on every later pull; its size hint is (1, Some(1)) before the first pull
\* and (0, Some(0)) after it.
C10_MonoYieldsOnce ==
    (pc = "arch_iter" /\ archive.val.format \in MonoFormats) =>
        /\ pulls = <<>> => SizeHint(objects) = <<1, Some(1)>>
        /\ pulls # <<>> =>
              /\ pulls[1][1] # None
              /\ pulls[1][1][1].ok <=> file_data.objs[1].parseOk
              /\ pulls[1][1][1].ok => pulls[1][1][1].val.format = archive.val.format
              /\ SizeHint(objects) = <<0, Some(0)>>
        /\ \A n \in 1..Len(pulls) : pulls[n][2] = <<0, Some(0)>>
        /\ \A n \in 2..Len(pulls) : pulls[n][1] = None

\* C10 witness: three pulls of the iterator of a single-object archive whose
\* one item is a parse error.
C10_Witness ==
    /\ pc = "arch_iter" /\ archive.val.format \in MonoFormats
    /\ Len(pulls) >= 3
    /\ ~pulls[1][1][1].ok

(***************************************************************************)
(* Claims about peek (SpecPeek).                                            *)
(***************************************************************************)
\* The buffer starts with the fat magic and MachArchive::test accepts it.
ValidFat ==
    file_data.magic = "FAT_MAGIC" /\ file_data.fatOk /\ file_data.len >= 8

\* C11 as stated: on a buffer with the fat magic that passes the fat-header
\* check, peek(bytes, false) is Unknown and peek(bytes, true) is MachO; with
\* the fat magic and a failing check both are Unknown.
C11_Original ==
    \A n \in 1..Len(log) :
        /\ ValidFat => log[n][3] = (IF log[n][2] THEN "MachO" ELSE "Unknown")
        /\ (file_data.magic = "FAT_MAGIC" /\ ~file_data.fatOk)
              => log[n][3] = "Unknown"

\* C11 amended: the same for a buffer of at least 16 bytes; a shorter buffer
\* is Unknown with either flag even when it passes the fat-header check.
C11_FatNeedsFlag ==
    \A n \in 1..Len(log) :
        /\ (ValidFat /\ file_data.len >= MinPeekLen)
              => log[n][3] = (IF log[n][2] THEN "MachO" ELSE "Unknown")
        /\ (ValidFat /\ file_data.len < MinPeekLen) => log[n][3] = "Unknown"
        /\ (file_data.magic = "FAT_MAGIC" /\ ~file_data.fatOk)
              => log[n][3] = "Unknown"

\* C11 witness: both flags were tried on a fat binary of 16 bytes or more.
C11_Witness ==
    /\ ValidFat /\ file_data.len >= MinPeekLen
    /\ \E n, m \in 1..Len(log) :
          /\ ~log[n][2] /\ log[n][3] = "Unknown"
          /\ log[m][2] /\ log[m][3] = "MachO"

\* C12: peek of a buffer shorter than 16 bytes is Unknown, whatever its
\* content and the flag, and no format probe is consulted.
C12_ShortIsUnknown ==
    \A n \in 1..Len(log) :
        file_data.len < 16 => log[n][3] = "Unknown" /\ log[n][4] = <<>>

\* C12 witness: a 15-byte buffer that a format's test accepts was peeked
\* with both flags.
C12_Witness ==
    /\ file_data.len = 15 /\ file_data.probes # {}
    /\ \E n, m \in 1..Len(log) : ~log[n][2] /\ log[m][2]

\* The buffer is a single-architecture object of format x.
SingleArch(x) ==
    IF x = "MachO"
    THEN file_data.probes = {} /\ file_data.magic \in ThinMagics
         /\ file_data.len >= 4
    ELSE file_data.probes = {x}

\* Two calls on the buffer never differ unless it starts with the fat magic.
FlagOnlyMattersForFat ==
    \A n, m \in 1..Len(log) :
        log[n][3] # log[m][3] => file_data.magic = "FAT_MAGIC"

\* C13 as stated: on a single-architecture object of format X both
\* peek(bytes, false) and peek(bytes, true) are X, and the two calls differ
\* only on buffers that start with the fat magic.
C13_Original ==
    /\ \A x \in MonoFormats \cup {"MachO"} :
          SingleArch(x) => \A n \in 1..Len(log) : log[n][3] = x
    /\ FlagOnlyMattersForFat

\* C13 amended: on a single-architecture object of format X of at least 16
\* bytes both calls are X (a shorter one is Unknown with either flag), and
\* the two calls differ only on buffers that start with the fat magic.
C13_FlagIgnoredForSingleArch ==
    /\ \A x \in MonoFormats \cup {"MachO"} :
          SingleArch(x) =>
              \A n \in 1..Len(log) :
                  log[n][3] = (IF file_data.len >= MinPeekLen THEN x
                               ELSE "Unknown")
    /\ FlagOnlyMattersForFat

\* C13 witness: both flags were tried on a thin Mach-O of 16 bytes or more.
C13_Witness ==
    /\ SingleArch("MachO") /\ file_data.len >= MinPeekLen
    /\ \E n, m \in 1..Len(log) :
          /\ ~log[n][2] /\ log[n][3] = "MachO"
          /\ log[m][2] /\ log[m][3] = "MachO"

(***************************************************************************)
(* Further claims about the scan (Spec).                                    *)
(***************************************************************************)
\* The history has an event of this kind about object j of module i.
HasObjectEvent(kind, i, j) ==
    \E n \in 1..Len(log) : log[n][1] = kind /\ log[n][2] = i /\ log[n][3] = j

\* C14: within one archive, an object slice that fails to parse or whose
\* debug session cannot be opened is skipped alone: none of its functions is
\* visited, the scan does not end there, and the remaining objects of the
\* same archive and the later modules are processed.
C14_FailingObjectSkipped ==
    \A i \in 1..Len(osLibs) :
      LET slices == ModSlices(i)
      IN  \A j \in 1..Len(slices) :
            ~(slices[j].parseOk /\ slices[j].sessionOk) =>
              /\ \A n \in 1..Len(log) :
                    log[n][1] \in {"fn", "call"}
                        => ~(log[n][2] = i /\ log[n][3] = j)
              /\ ~slices[j].parseOk => ~HasObjectEvent("session", i, j)
              /\ (HasObjectEvent("object", i, j) /\ pc \in {"returned", "done"})
                    => Broke \/ li > Len(osLibs)
              /\ (pc = "done" /\ ~Broke) =>
                    /\ \A j2 \in (j + 1)..Len(slices) :
                          HasObjectEvent("object", i, j2)
                    /\ \A k \in (i + 1)..Len(osLibs) :
                          HasEvent("read", k) \/ HasEvent("current_exe_failed", k)
                    /\ Called = Callable

\* C14 witness: a finished scan of an archive whose first slice did not
\* parse and whose second had no debug session: the handler was invoked for
\* its third slice and for a later module.
C14_Witness ==
    /\ pc = "done" /\ ~Broke
    /\ Len(osLibs) >= 2
    /\ LET slices == ModSlices(1)
       IN  /\ Len(slices) = 3
           /\ ~slices[1].parseOk
           /\ slices[2].parseOk /\ ~slices[2].sessionOk
    /\ HasObjectEvent("session", 1, 2)
    /\ \E t \in Called : t[1] = 1 /\ t[2] = 3
    /\ \E t \in Called : t[1] = 2

\* The function record at position t of the process, failed or not.
RecordAt(t) == ModSlices(t[1])[t[2]].funcs[t[3]]

\* C15: the handler is invoked only for function records that are yielded
\* without error and whose raw name demangles, with the demangled name; a
\* failing record and a name the demangler declines are passed over without
\* invoking the handler, and the scan goes on with the next function of the
\* same session.
C15_HandlerOnlyForDemangled ==
    /\ \A n \in 1..Len(log) :
          LET e == log[n]
          IN  /\ e[1] = "call" =>
                    LET rec == RecordAt(CallPos(e))
                    IN  rec.ok /\ Demangle(rec.val.name) = Some(e[5])
              /\ e[1] = "fn" =>
                    LET rec == RecordAt(CallPos(e))
                    IN  /\ e[5] = "failed" <=> ~rec.ok
                        /\ e[5] = "declined" <=>
                              (rec.ok /\ Demangle(rec.val.name) = None)
                        /\ \A m \in 1..Len(log) :
                              log[m][1] = "call" => CallPos(log[m]) # CallPos(e)
    /\ (log # <<>> /\ Last(log)[1] = "fn") =>
          /\ pc = "function"
          /\ li = Last(log)[2] /\ oi = Last(log)[3] /\ fi = Last(log)[4]
    /\ (pc = "done" /\ ~Broke) => Called = Callable

\* C15 witness: a finished scan of a session whose first record does not
\* demangle and whose second failed: neither was handed to the handler, and
\* the third was.
C15_Witness ==
    /\ pc = "done" /\ ~Broke
    /\ \E n \in 1..Len(log) : log[n] = <<"fn", 1, 1, 1, "declined">>
    /\ \E n \in 1..Len(log) : log[n] = <<"fn", 1, 1, 2, "failed">>
    /\ <<1, 1, 3>> \in Called
    /\ <<1, 1, 1>> \notin Called /\ <<1, 1, 2>> \notin Called

\* C18: when the first function in scan order whose demangled name equals
\* the target has no line records, declaration_by_name stops at it and
\* returns absent: no later function is handed to the matcher, a later
\* function of the same name that has line records included.
C18_LinelessFirstMatchIsAbsent ==
    mode = "by_name" =>
      \A t \in FirstMatch :
        Len(FnAt(t).lines) = 0 =>
          /\ \A u \in Called : ~Before(t, u)
          /\ t \in Called => result = None /\ pc \in {"returned", "done"}
          /\ pc = "done" => t \in Called /\ ret = Returned(None)

\* C18 witness: a lookup returned absent from a first match without line
\* records although a later function of the same name has line records.
C18_Witness ==
    /\ pc = "done" /\ mode = "by_name" /\ ret = Returned(None)
    /\ \E t \in FirstMatch :
          /\ Len(FnAt(t).lines) = 0
          /\ t \in Called
          /\ \E u \in Matches : Before(t, u) /\ Len(FnAt(u).lines) > 0

(***************************************************************************)
(* Further claims about the archive facade (SpecArchive).                   *)
(***************************************************************************)
\* The parsers the n-th event of the history ran.
Ran(n) == log[n][3]

\* The buffer is of a single-object format.
MonoBuffer == ArchivePeek(file_data) \in MonoFormats

\* C16 as stated: for a single-object format the parser is run neither at
\* Archive construction nor by objects(), but by the first pull.
C16_Original ==
    MonoBuffer =>
        /\ \A n \in 1..Len(log) :
              log[n][1] \in {"parse", "objects"} => Ran(n) = <<>>
        /\ \A n \in 1..Len(log) :
              (log[n][1] = "next" /\ log[n - 1][1] = "objects")
                  => Ran(n) = <<ArchivePeek(file_data)>>

\* C16 amended: for a single-object format the parser is not run at Archive
\* construction, which succeeds on a malformed buffer too; it is run once,
\* by objects(), which stores the result; no pull runs it, and the first
\* pull hands out the stored result, where a malformed buffer's failure
\* shows.
C16_ParsedByObjects ==
    MonoBuffer =>
        /\ \A n \in 1..Len(log) :
              /\ log[n][1] = "parse" => Ran(n) = <<>> /\ archive.ok
              /\ log[n][1] = "objects" => Ran(n) = <<ArchivePeek(file_data)>>
              /\ log[n][1] = "next" => Ran(n) = <<>>
        /\ (pc = "arch_iter" /\ pulls = <<>>) =>
              objects.slot = Some(MonoParserParse(archive.val.format, file_data))
        /\ pulls # <<>> =>
              /\ pulls[1][1] # None
              /\ pulls[1][1][1].ok <=> file_data.objs[1].parseOk

\* C16 witness: a malformed single-object buffer made an Archive, objects()
\* ran the parser, and the first pull handed out the failure.
C16_Witness ==
    /\ MonoBuffer /\ ~file_data.objs[1].parseOk
    /\ pc = "arch_iter" /\ archive.ok
    /\ \E n \in 1..Len(log) : log[n][1] = "objects" /\ Ran(n) # <<>>
    /\ Len(pulls) = 1 /\ ~pulls[1][1][1].ok

\* The formats of an Object and the kinds of an ObjectDebugSession.
ObjectFormats == MonoFormats \cup {"MachO"}
SessionKinds == {"Dwarf", "Pdb", "Pe", "SourceBundle"}

\* What each debug_session() call of the history returned: a session of
\* one of the four kinds, Dwarf exactly for the formats in dwarf and the
\* format's own kind otherwise, or an opaque error.
SessionsRouted(dwarf) ==
    \A n \in 1..Len(log) :
        log[n][1] = "debug_session" =>
            LET format == log[n][3]
                r == log[n][4]
            IN  IF r.ok
                THEN /\ r.val.kind \in SessionKinds
                     /\ r.val.kind = (IF format \in dwarf THEN "Dwarf"
                                      ELSE format)
                ELSE r = Err("Transparent")

\* A debug session has been asked for.
SessionAsked == \E n \in 1..Len(log) : log[n][1] = "debug_session"

\* C17 as stated: debug_session yields one of four session kinds; exactly
\* two formats share the Dwarf kind and every other format has a kind of
\* its own; a failure is an opaque error.
C17_Original ==
    SessionAsked =>
        \E dwarf \in SUBSET ObjectFormats :
            /\ Cardinality(dwarf) = 2
            /\ \A f \in ObjectFormats : SessionKind(f) = "Dwarf" <=> f \in dwarf
            /\ SessionsRouted(dwarf)

\* C17 amended: debug_session yields one of four session kinds; the three
\* formats Elf, Mach-O and Wasm share the Dwarf kind and each of Pdb, Pe and
\* SourceBundle has a kind of its own; a failure is an opaque error.
C17_ThreeFormatsShareDwarf ==
    SessionAsked =>
        /\ \A f \in ObjectFormats :
              SessionKind(f) = "Dwarf" <=> f \in {"Elf", "MachO", "Wasm"}
        /\ { SessionKind(f) : f \in ObjectFormats } = SessionKinds
        /\ SessionsRouted({"Elf", "MachO", "Wasm"})

\* C17 witness: the debug session of a Wasm object was opened and is of the
\* Dwarf kind.
C17_Witness ==
    \E n \in 1..Len(log) :
        /\ log[n][1] = "debug_session" /\ log[n][3] = "Wasm"
        /\ log[n][4].ok /\ log[n][4].val.kind = "Dwarf"

====
